---- MODULE Spec2Model ----
(***************************************************************************)
(* Report-to-email pipeline of PerformanceSystem: metric extraction,       *)
(* conviction ranking, template substitution, optional AI rewriting and    *)
(* the batch loop, for the three generators of the repository              *)
(*   "enhanced" : enhanced_generator.py  (EnhancedEmailGenerator)          *)
(*   "basic"    : performance_email_generator.py (PerformanceEmailGenerator)*)
(*   "simple"   : simple_demo.py (generate_emails)                         *)
(*                                                                         *)
(* Text is a sequence of tokens.  A token is one character (a digit, ".",  *)
(* "-", "%", ":", " ", "\n", "{", "}") or a word that the patterns of the   *)
(* code treat as a unit ("YTD", "Sharpe", ...).  String concatenation is   *)
(* sequence concatenation.                                                 *)
(***************************************************************************)
EXTENDS Integers, Sequences, FiniteSets, TLC

(***************************************************************************)
(* Bounds of the model                                                     *)
(***************************************************************************)
MaxSources == 2

MaxTable == 3

MaxN == 4

(***************************************************************************)
(* Generic helpers on token sequences                                      *)
(***************************************************************************)
\* the element of a one-element set; {e(x) : x \in {v}} names the value v
\* once for the expression e
Only(S) == CHOOSE x \in S : TRUE

Digits == {"0", "1", "2", "3", "4", "5", "6", "7", "8", "9"}

IsDigit(t) == t \in Digits

IsSpace(t) == t \in {" ", "\n"}

RECURSIVE FlattenFrom(_, _, _)
FlattenFrom(ss, i, acc) ==
    IF i > Len(ss) THEN acc ELSE FlattenFrom(ss, i + 1, acc \o ss[i])

\* "".join(ss)
Flatten(ss) == Only({FlattenFrom(s, 1, <<>>) : s \in {ss}})

RECURSIVE JoinFrom(_, _, _, _)
JoinFrom(sep, ss, i, acc) ==
    IF i > Len(ss) THEN acc
    ELSE JoinFrom(sep, ss, i + 1,
                  IF i = 1 THEN ss[i] ELSE acc \o sep \o ss[i])

\* sep.join(ss)
Join(sep, ss) == Only({JoinFrom(sep, s, 1, <<>>) : s \in {ss}})

Range(s) == {s[i] : i \in 1..Len(s)}

\* the least element of a non-empty set of integers
SetMin(S) == Only({CHOOSE x \in T : \A y \in T : x <= y : T \in {S}})

\* first index >= i of text that holds a digit, Len(text) + 1 if none
SkipNonDigits(text, i) ==
    SetMin({j \in i..Len(text) : IsDigit(text[j])} \cup {Len(text) + 1})

\* first index >= i of text that holds no digit, Len(text) + 1 if none
SkipDigits(text, i) ==
    SetMin({j \in i..Len(text) : ~IsDigit(text[j])} \cup {Len(text) + 1})

\* first index >= i of text that holds no whitespace, Len(text) + 1 if none
SkipSpaces(text, i) ==
    SetMin({j \in i..Len(text) : ~IsSpace(text[j])} \cup {Len(text) + 1})

(***************************************************************************)
(* MetricsExtractor, enhanced_generator.py: parse_pdf_report               *)
(***************************************************************************)
MetricKeys == {"YTD", "SinceInception", "Sharpe", "Beta", "MaxDrawdown"}

\* config.py: PDF_PAGES_TO_PARSE = [1, 2, 3], 0-indexed page numbers
PDF_PAGES_TO_PARSE == <<1, 2, 3>>

\* re.IGNORECASE on the words of the patterns
Fold(t) ==
    CASE t \in {"ytd", "Ytd"} -> "YTD"
      [] t = "inception" -> "Inception"
      [] t = "beta" -> "Beta"
      [] t = "drawdown" -> "Drawdown"
      [] t = "sharpe" -> "Sharpe"
      [] t = "ratio" -> "Ratio"
      [] OTHER -> t

\* the word part of each pattern; an optional prefix "(?:Since\s+)?" or
\* "(?:Max\s+)?" only moves the start of the match, never the group
PatternWord ==
    [YTD |-> "YTD", SinceInception |-> "Inception", Sharpe |-> "Sharpe",
     Beta |-> "Beta", MaxDrawdown |-> "Drawdown"]

\* the patterns that end in a literal "%"
PercentKeys == {"YTD", "SinceInception", "MaxDrawdown"}

\* the word of the pattern made optional: a match may start anywhere
WordEndOptional(text, k, key) ==
    IF k > Len(text) THEN 0
    ELSE IF Fold(text[k]) # PatternWord[key] THEN k
    ELSE k + 1

\* position right after the word part of key matched at position k, 0 if the
\* word part does not match at k ("Sharpe\s+Ratio" needs the second word)
WordEnd(text, k, key) ==
    IF k > Len(text) \/ Fold(text[k]) # PatternWord[key] THEN 0
    ELSE IF key # "Sharpe" THEN k + 1
    ELSE IF k + 1 > Len(text) \/ ~IsSpace(text[k + 1]) THEN 0
    ELSE LET r == SkipSpaces(text, k + 1)
         IN IF r <= Len(text) /\ Fold(text[r]) = "Ratio" THEN r + 1 ELSE 0

\* position right after the longest match of \d+\.?\d* at p (text[p] a digit)
NumberEnd(text, p) ==
    Only({IF d1 <= Len(text) /\ text[d1] = "." THEN SkipDigits(text, d1 + 1)
          ELSE d1 : d1 \in {SkipDigits(text, p)}})

\* group(1) when the word of the pattern ends right before w
GroupAfter(text, w, key) ==
    Only({IF p > Len(text) THEN <<>>
          ELSE Only({IF key \in PercentKeys
                        /\ (e > Len(text) \/ text[e] # "%")
                     THEN <<>>
                     ELSE SubSeq(text, p, e - 1) : e \in {NumberEnd(text, p)}})
          : p \in {SkipNonDigits(text, w)}})

\* group(1) of  WORD[^\d]*(-?\d+\.?\d*)%?  matched with its word at k, <<>>
\* if there is no match at k.  [^\d]* is greedy and takes every non-digit
\* up to the first digit, a "-" included; backtracking one step lets -?
\* take that "-" only when the number itself failed, and it fails again.
GroupAt(text, k, key) ==
    Only({IF w = 0 THEN <<>> ELSE GroupAfter(text, w, key)
          : w \in {WordEnd(text, k, key)}})

\* re.search: the match with the leftmost start
re_search(text, key) ==
    LET starts == {k \in 1..Len(text) : GroupAt(text, k, key) # <<>>}
    IN IF starts = {} THEN <<>> ELSE GroupAt(text, SetMin(starts), key)

\* metrics[key] = group(1) for every key
MetricValueBare(text, key) == re_search(text, key)

\* metrics[key] = f"{group(1)}%" for the percent keys, group(1) otherwise
MetricValue(text, key) ==
    IF key \in PercentKeys THEN re_search(text, key) \o <<"%">>
    ELSE re_search(text, key)

ParseText(all_text) ==
    [key \in {k \in MetricKeys : re_search(all_text, k) # <<>>}
        |-> MetricValue(all_text, key)]

\* the text of the configured pages that exist and have text, each + "\n"
RECURSIVE PagesText(_, _)
PagesText(pages, nums) ==
    IF nums = <<>> THEN <<>>
    ELSE LET n == Head(nums)
             t == IF n < Len(pages) /\ pages[n + 1] # <<>>
                  THEN pages[n + 1] \o <<"\n">> ELSE <<>>
         IN t \o PagesText(pages, Tail(nums))

\* the sample record with the drawdown as a magnitude
FallbackMetricsUnsigned ==
    [YTD |-> <<"8", ".", "5", "%">>,
     SinceInception |-> <<"1", "2", ".", "3", "%">>,
     Sharpe |-> <<"1", ".", "4", "2">>,
     Beta |-> <<"0", ".", "9", "5">>,
     MaxDrawdown |-> <<"5", ".", "2", "%">>]

FallbackMetrics ==
    [YTD |-> <<"8", ".", "5", "%">>,
     SinceInception |-> <<"1", "2", ".", "3", "%">>,
     Sharpe |-> <<"1", ".", "4", "2">>,
     Beta |-> <<"0", ".", "9", "5">>,
     MaxDrawdown |-> <<"-", "5", ".", "2", "%">>]

\* parse_pdf_report with the except branch returning the record it built so
\* far (nothing) in place of the fallback record
parse_pdf_report_no_fallback(src) ==
    IF ~src.readable THEN [k \in {} |-> <<>>]
    ELSE Only({ParseText(all_text)
               : all_text \in {PagesText(src.pages, PDF_PAGES_TO_PARSE)}})

\* a report source: [stem, readable, pages]; pdfplumber.open raises on an
\* unreadable source and the except branch returns the sample record
parse_pdf_report(src) ==
    IF ~src.readable THEN FallbackMetrics
    ELSE Only({ParseText(all_text) :
                 all_text \in {PagesText(src.pages, PDF_PAGES_TO_PARSE)}})

(***************************************************************************)
(* performance_email_generator.py: parse_report (never opens the file)     *)
(***************************************************************************)
parse_report(src) == FallbackMetrics

(***************************************************************************)
(* simple_demo.py: extract_pdf_metrics (line scan of the raw file)         *)
(***************************************************************************)
\* the raw text of the file: its pages, one after the other
RECURSIVE FileText(_)
FileText(pages) ==
    IF pages = <<>> THEN <<>>
    ELSE Head(pages) \o <<"\n">> \o FileText(Tail(pages))

\* content.split('\n')
RECURSIVE SplitLines(_, _)
SplitLines(text, cur) ==
    IF text = <<>> THEN <<cur>>
    ELSE IF Head(text) = "\n" THEN <<cur>> \o SplitLines(Tail(text), <<>>)
    ELSE SplitLines(Tail(text), Append(cur, Head(text)))

StartsWithAt(line, i, pat) ==
    /\ i + Len(pat) - 1 <= Len(line)
    /\ \A j \in 1..Len(pat) : line[i + j - 1] = pat[j]

\* index of the first occurrence of pat in line at or after i, 0 if none
RECURSIVE IndexOf(_, _, _)
IndexOf(line, i, pat) ==
    IF i + Len(pat) - 1 > Len(line) THEN 0
    ELSE IF StartsWithAt(line, i, pat) THEN i
    ELSE IndexOf(line, i + 1, pat)

RECURSIVE LStrip(_)
LStrip(s) == IF s # <<>> /\ IsSpace(Head(s)) THEN LStrip(Tail(s)) ELSE s

RECURSIVE RStrip(_)
RStrip(s) ==
    IF s # <<>> /\ IsSpace(s[Len(s)]) THEN RStrip(SubSeq(s, 1, Len(s) - 1))
    ELSE s

Strip(s) == RStrip(LStrip(s))

\* line.split(pat)[1].strip(), for a line that contains pat
AfterLabel(line, pat) ==
    LET a == IndexOf(line, 1, pat) + Len(pat)
        b == IndexOf(line, a, pat)
    IN Strip(SubSeq(line, a, IF b = 0 THEN Len(line) ELSE b - 1))

YTDLabel == <<"YTD", " ", "Return", ":">>

InceptionLabel == <<"Since", " ", "Inception", " ", "Return", ":">>

SharpeLabel == <<"Sharpe", " ", "Ratio", ":">>

\* the if/elif chain applied to one line: a later line overwrites
ScanLine(metrics, line) ==
    LET put(k, v) == [x \in DOMAIN metrics \cup {k} |->
                        IF x = k THEN v ELSE metrics[x]]
    IN IF IndexOf(line, 1, YTDLabel) # 0
         THEN put("YTD", AfterLabel(line, YTDLabel))
       ELSE IF IndexOf(line, 1, InceptionLabel) # 0
         THEN put("SinceInception", AfterLabel(line, InceptionLabel))
       ELSE IF IndexOf(line, 1, SharpeLabel) # 0
         THEN put("Sharpe", AfterLabel(line, SharpeLabel))
       ELSE metrics

RECURSIVE ScanLines(_, _)
ScanLines(metrics, lines) ==
    IF lines = <<>> THEN metrics
    ELSE ScanLines(ScanLine(metrics, Head(lines)), Tail(lines))

EmptyMetrics == [k \in {} |-> <<>>]

\* only called on a readable source: open() raises on the others
extract_pdf_metrics(src) ==
    Only({ScanLines(EmptyMetrics, lines) :
            lines \in {SplitLines(FileText(src.pages), <<>>)}})

(***************************************************************************)
(* ConvictionRanker: get_top_convictions / load_convictions_csv            *)
(* A conviction row is [Model, YTDpct, Commentary]; YTDpct is the 'YTD%'   *)
(* column in tenths of a percent (152 is 15.2).  A value that may be None  *)
(* is a sequence of length 0 (None) or 1.                                  *)
(***************************************************************************)
NoneV == <<>>

Some(x) == <<x>>

\* config.py: MAX_CONVICTIONS
MAX_CONVICTIONS == 3

\* the default of PerformanceEmailGenerator.get_top_convictions(n=3) and the
\* slice convictions[:3] of simple_demo
DefaultTopN == 3

\* the place of row i after a descending stable sort: behind every row with
\* a larger return and every earlier row with an equal one
PlaceDesc(rows, i) ==
    1 + Cardinality({j \in 1..Len(rows) :
                        \/ rows[j].YTDpct > rows[i].YTDpct
                        \/ rows[j].YTDpct = rows[i].YTDpct /\ j < i})

\* descending stable sort: list.sort(key=..., reverse=True) and the order of
\* DataFrame.nlargest(keep='first')
SortDesc(rows) ==
    Only({[p \in 1..Len(r) |-> r[CHOOSE i \in 1..Len(r) : PlaceDesc(r, i) = p]]
          : r \in {rows}})

Take(s, n) == SubSeq(s, 1, IF n < Len(s) THEN n ELSE Len(s))

\* DataFrame.nlargest(n, 'YTD%'): the first n rows in descending order of the
\* column, no row for n <= 0
nlargest(df, n) == IF n <= 0 THEN <<>> ELSE Take(SortDesc(df), n)

\* "n = n or self.config.MAX_CONVICTIONS": None and 0 are both falsy.
\* n is NoneV (argument omitted) or Some(integer)
EffectiveN(impl, n) ==
    IF impl = "enhanced"
    THEN IF n = NoneV \/ n[1] = 0 THEN MAX_CONVICTIONS ELSE n[1]
    ELSE IF n = NoneV THEN DefaultTopN ELSE n[1]

\* the decimal digits of a natural number, most significant first
RECURSIVE DigitsOf(_)
DigitsOf(k) ==
    LET d == <<"0", "1", "2", "3", "4", "5", "6", "7", "8", "9">>
    IN IF k < 10 THEN <<d[k + 1]>> ELSE DigitsOf(k \div 10) \o <<d[(k % 10) + 1]>>

\* str() of the float held in tenths: 152 -> 15.2, -21 -> -2.1
FormatFloat(r) ==
    LET a == IF r < 0 THEN 0 - r ELSE r
    IN (IF r < 0 THEN <<"-">> ELSE <<>>)
       \o DigitsOf(a \div 10) \o <<".">> \o DigitsOf(a % 10)

\* f"<check mark> {row['Model']}: {row['YTD%']}% <dash> {row['Commentary']}";
\* the two non-ASCII characters are written "[v] " and " -- "
ConvictionLine(row) ==
    <<"[v] ", row.Model, ": ">> \o FormatFloat(row.YTDpct)
        \o <<"%", " -- ", row.Commentary>>

FormatConvictions(rows) ==
    Only({Join(<<"\n">>, [i \in 1..Len(r) |-> ConvictionLine(r[i])])
          : r \in {rows}})

ConvictionsNotAvailable == <<"Conviction data not available">>

\* the rows get_top_convictions formats (top_convs); df is a loaded table
top_convs(impl, df, n) == nlargest(df, EffectiveN(impl, n))

ConvictionsError == <<"Error retrieving conviction data">>

\* read_excel gives the columns of a table without rows the dtype object, and
\* nlargest raises TypeError for a column of that dtype
NlargestRaises(df) == df = <<>>

\* get_top_convictions of the two classes; convictions_df is NoneV or
\* Some(table)
get_top_convictions(impl, convictions_df, n) ==
    IF convictions_df = NoneV THEN ConvictionsNotAvailable
    ELSE IF NlargestRaises(convictions_df[1]) THEN ConvictionsError
    ELSE FormatConvictions(top_convs(impl, convictions_df[1], n))

\* what get_top_convictions logs
ConvictionsLog(convictions_df) ==
    IF convictions_df # NoneV /\ NlargestRaises(convictions_df[1])
    THEN <<[level |-> "error", ev |-> "convictions_error", arg |-> 0]>>
    ELSE <<>>

\* simple_demo: load_convictions_csv sorts the rows, generate_emails takes
\* convictions[:3] and formats them
load_convictions_csv(rows) == SortDesc(rows)

SimpleConvictionsText(rows) ==
    FormatConvictions(Take(load_convictions_csv(rows), DefaultTopN))

(***************************************************************************)
(* Recipient identity: pdf_path.stem.replace("_", " ").title()             *)
(***************************************************************************)
UpperOf == [a |-> "A", b |-> "B", A |-> "A", B |-> "B"]

LowerOf == [a |-> "a", b |-> "b", A |-> "a", B |-> "b"]

IsLetter(c) == c \in DOMAIN UpperOf

Replace(s, from, to) == [i \in 1..Len(s) |-> IF s[i] = from THEN to ELSE s[i]]

\* str.title(): a letter that follows a non-letter is upper-cased, a letter
\* that follows a letter is lower-cased
Title(s) ==
    [i \in 1..Len(s) |->
        IF ~IsLetter(s[i]) THEN s[i]
        ELSE IF i = 1 \/ ~IsLetter(s[i - 1]) THEN UpperOf[s[i]]
        ELSE LowerOf[s[i]]]

ClientName(stem) == Title(Replace(stem, "_", " "))

(***************************************************************************)
(* TemplateRenderer: str.format with the five keyword arguments            *)
(* A template is a token sequence; "{", NAME, "}" is a replacement field,  *)
(* "{", "{" and "}", "}" are escaped braces.                               *)
(***************************************************************************)
NA == <<"N/A">>

\* metrics.get(key, "") : an absent metric rendered as nothing
MetricsGetBlank(metrics, key) ==
    IF key \in DOMAIN metrics THEN metrics[key] ELSE <<>>

\* metrics.get(key, "N/A")
MetricsGet(metrics, key) ==
    IF key \in DOMAIN metrics THEN metrics[key] ELSE NA

\* the keyword arguments of the format call
FormatArgs(client_name, metrics, convictions) ==
    [Name |-> client_name,
     YTD |-> MetricsGet(metrics, "YTD"),
     SinceInception |-> MetricsGet(metrics, "SinceInception"),
     Sharpe |-> MetricsGet(metrics, "Sharpe"),
     Convictions |-> convictions]

\* str.format: [ok |-> TRUE, out |-> text] or [ok |-> FALSE, out |-> the
\* exception]: KeyError for a field that is no keyword argument, ValueError
\* for a single brace, IndexError for the positional field "{}"
RECURSIVE FormatFrom(_, _, _)
FormatFrom(t, args, done) ==
    IF t = <<>> THEN [ok |-> TRUE, out |-> done]
    ELSE IF t[1] = "{" THEN
         IF Len(t) >= 2 /\ t[2] = "{"
           THEN FormatFrom(SubSeq(t, 3, Len(t)), args, Append(done, "{"))
         ELSE IF Len(t) >= 2 /\ t[2] = "}"
           THEN [ok |-> FALSE, out |-> <<"IndexError">>]
         ELSE IF Len(t) >= 3 /\ t[3] = "}" THEN
              IF t[2] \in DOMAIN args
                THEN FormatFrom(SubSeq(t, 4, Len(t)), args, done \o args[t[2]])
              ELSE [ok |-> FALSE, out |-> <<"KeyError", t[2]>>]
         ELSE [ok |-> FALSE, out |-> <<"ValueError">>]
    ELSE IF t[1] = "}" THEN
         IF Len(t) >= 2 /\ t[2] = "}"
           THEN FormatFrom(SubSeq(t, 3, Len(t)), args, Append(done, "}"))
         ELSE [ok |-> FALSE, out |-> <<"ValueError">>]
    ELSE FormatFrom(Tail(t), args, Append(done, t[1]))

\* the format call with a line end appended to what it returns
StrFormatLine(t, args) ==
    LET r == FormatFrom(t, args, <<>>)
    IN IF r.ok THEN [ok |-> TRUE, out |-> Append(r.out, "\n")] ELSE r

StrFormat(t, args) == FormatFrom(t, args, <<>>)

TemplateNotAvailable == <<"Email template not available">>

\* f"Error generating email: {e}"
ErrorEmail(e) == <<"Error generating email: ">> \o e

(***************************************************************************)
(* AIEnhancer: enhance_with_ai.  backend is what the text-generation       *)
(* service does with the one request of a run segment:                     *)
(*   "text"      a response whose first choice carries text                *)
(*   "error"     the request raises (network, auth)                        *)
(*   "timeout"   no answer: the client's request timeout raises            *)
(*   "nochoices" a response with an empty choices list (IndexError)        *)
(*   "notext"    a response whose first choice has content None            *)
(***************************************************************************)
Backends == {"text", "error", "timeout", "nochoices", "notext"}

\* the text the service returns for a base email
AIText(base_email) == <<"[AI rewrite] ">> \o base_email

\* returns NoneV (Python None) or Some(text)
enhance_with_ai(openai_client, backend, base_email) ==
    IF ~openai_client THEN Some(base_email)
    ELSE IF backend = "text" THEN Some(AIText(base_email))
    ELSE IF backend = "notext" THEN NoneV
    ELSE Some(base_email)

\* generate_email of the two classes; email_template is NoneV or Some(text);
\* PerformanceEmailGenerator has no AI step
generate_email(impl, tmpl, openai_client, backend, name, mets, convictions, ai) ==
    IF tmpl = NoneV \/ tmpl[1] = <<>>
    THEN Some(TemplateNotAvailable)
    ELSE LET r == StrFormat(tmpl[1], FormatArgs(name, mets, convictions))
         IN IF ~r.ok THEN Some(ErrorEmail(r.out))
            ELSE IF impl = "enhanced" /\ ai /\ openai_client
                 THEN enhance_with_ai(openai_client, backend, r.out)
            ELSE Some(r.out)

(***************************************************************************)
(* Inputs of the model: report sources, templates, conviction tables       *)
(***************************************************************************)
CoverPage == <<"PERFORMANCE", " ", "REPORT">>

MetricsPage ==
    <<"YTD", " ", "Return", ":", " ", "6", ".", "7", "%", "\n",
      "Since", " ", "Inception", " ", "Return", ":", " ", "9", ".", "0", "%", "\n",
      "Sharpe", " ", "Ratio", ":", " ", "1", ".", "1", "5">>

YtdOnlyPage == <<"YTD", " ", "Return", ":", " ", "6", ".", "7", "%">>

BlurbPage == <<"Holdings", " ", "and", " ", "allocations">>

\* what a report file can be: unreadable, or readable with these pages
Contents ==
    { [readable |-> FALSE, pages |-> <<>>],
      [readable |-> TRUE, pages |-> <<CoverPage, MetricsPage>>],
      [readable |-> TRUE, pages |-> <<MetricsPage>>],
      [readable |-> TRUE, pages |-> <<CoverPage, BlurbPage>>],
      [readable |-> TRUE, pages |-> <<CoverPage, YtdOnlyPage>>] }

\* filename stems in the order in which the directory lists them; the first
\* two give the same recipient identity
DirOrder == << <<"a", "_", "b">>, <<"A", "_", "b">>, <<"b">> >>

Stems == Range(DirOrder)

Sources ==
    { [stem |-> st, readable |-> c.readable, pages |-> c.pages] :
        st \in Stems, c \in Contents }

RECURSIVE SeqsUpTo(_, _)
SeqsUpTo(S, k) ==
    IF k = 0 THEN {<<>>}
    ELSE LET shorter == SeqsUpTo(S, k - 1)
         IN shorter \cup
            { Append(q, x) : q \in {r \in shorter : Len(r) = k - 1}, x \in S }

StemPos(st) == CHOOSE i \in 1..Len(DirOrder) : DirOrder[i] = st

\* the listings of a directory (glob): at most MaxSources files with
\* pairwise different names, in directory order
Listings ==
    { fs \in SeqsUpTo(Sources, MaxSources) :
        \A i, j \in 1..Len(fs) : i < j => StemPos(fs[i].stem) < StemPos(fs[j].stem) }

GoodTemplate ==
    <<"Dear ", "{", "Name", "}", "\n",
      "YTD ", "{", "YTD", "}", " since inception ", "{", "SinceInception", "}",
      " Sharpe ", "{", "Sharpe", "}", "\n", "{", "Convictions", "}">>

\* a template that references a metric the format call is not given
BetaTemplate == <<"Dear ", "{", "Name", "}", " beta ", "{", "Beta", "}">>

TemplateFiles == {NoneV, Some(GoodTemplate), Some(BetaTemplate)}

SmallTable ==
    << [Model |-> "Fixed Income Core", YTDpct |-> 41, Commentary |-> "Stable returns"],
       [Model |-> "US Large Cap Growth", YTDpct |-> 152, Commentary |-> "Robust earnings"] >>

\* _create_sample_convictions of enhanced_generator.py
EnhancedSampleTable ==
    << [Model |-> "US Large Cap Growth", YTDpct |-> 152, Commentary |-> "c1"],
       [Model |-> "International Developed Markets", YTDpct |-> 83, Commentary |-> "c2"],
       [Model |-> "Technology Sector Focus", YTDpct |-> 125, Commentary |-> "c3"],
       [Model |-> "Fixed Income Core", YTDpct |-> 41, Commentary |-> "c4"],
       [Model |-> "Emerging Markets", YTDpct |-> 0 - 21, Commentary |-> "c5"],
       [Model |-> "Real Estate Investment Trusts", YTDpct |-> 97, Commentary |-> "c6"],
       [Model |-> "Small Cap Value", YTDpct |-> 68, Commentary |-> "c7"],
       [Model |-> "Commodities & Energy", YTDpct |-> 113, Commentary |-> "c8"] >>

\* _create_sample_convictions of performance_email_generator.py
BasicSampleTable ==
    << [Model |-> "US Large Cap Growth", YTDpct |-> 125, Commentary |-> "c3"],
       [Model |-> "International Developed Markets", YTDpct |-> 83, Commentary |-> "c2"],
       [Model |-> "Technology Sector Focus", YTDpct |-> 152, Commentary |-> "c1"],
       [Model |-> "Fixed Income Core", YTDpct |-> 41, Commentary |-> "c4"],
       [Model |-> "Emerging Markets", YTDpct |-> 0 - 21, Commentary |-> "c5"],
       [Model |-> "Real Estate Investment Trusts", YTDpct |-> 97, Commentary |-> "c6"],
       [Model |-> "Small Cap Value", YTDpct |-> 68, Commentary |-> "c7"],
       [Model |-> "Commodities & Energy", YTDpct |-> 113, Commentary |-> "c8"] >>

\* the convictions file before the program starts
ConvFiles ==
    { [state |-> "missing", rows |-> <<>>],
      [state |-> "corrupt", rows |-> <<>>],
      [state |-> "ok", rows |-> <<>>],
      [state |-> "ok", rows |-> SmallTable] }

\* _create_sample_pdfs of performance_email_generator.py: five text files
\* that are no PDF documents
SamplePdfs ==
    << [stem |-> <<"John", "_", "Smith">>, readable |-> FALSE, pages |-> <<>>],
       [stem |-> <<"Sarah", "_", "Johnson">>, readable |-> FALSE, pages |-> <<>>],
       [stem |-> <<"Michael", "_", "Brown">>, readable |-> FALSE, pages |-> <<>>],
       [stem |-> <<"Emily", "_", "Davis">>, readable |-> FALSE, pages |-> <<>>],
       [stem |-> <<"Robert", "_", "Wilson">>, readable |-> FALSE, pages |-> <<>>] >>

OUTPUT_DIR == "output/emails"

Impls == {"enhanced", "basic", "simple"}

\* an email left in the output directory by an earlier run
StaleEmail == <<"email of an earlier run">>

EmptyOutbox == [x \in {} |-> <<>>]

\* the output directory when the run starts: the email of recipient "B" of
\* an earlier run is there, none of recipient "A B"
InitialOutbox == [x \in {<<"B">>} |-> StaleEmail]

\* the file opened for writing and closed before its content is written
PutTruncated(f, k, v) == [x \in DOMAIN f \cup {k} |-> IF x = k THEN <<>> ELSE f[x]]

Put(f, k, v) == [x \in DOMAIN f \cup {k} |-> IF x = k THEN v ELSE f[x]]

(***************************************************************************)
(* State                                                                   *)
(***************************************************************************)
VARIABLES
    impl,             \* which of the three generators runs
    conv_file,        \* the convictions file: [state, rows]
    template_file,    \* the template file: NoneV (missing) or Some(text)
    pdf_dir,          \* the reports directory: [exists, files]
    convictions_df,   \* self.convictions_df / convictions: NoneV or Some(rows)
    email_template,   \* self.email_template: NoneV or Some(text)
    openai_client,    \* TRUE iff self.openai_client is set
    backend,          \* what the text-generation service does in this run
    use_ai,           \* the use_ai argument of process_all_reports
    pc,               \* "start", "loop", "done", "returned", "raised";
                      \* "rank", "ranked", "render", "rendered" when a
                      \* component is applied on its own
    pdf_files,        \* the list the loop iterates
    idx,              \* position of the loop in pdf_files
    arg_n,            \* the n argument of get_top_convictions
    ranked,           \* top_convs: the rows selected by the ranking
    convictions_text, \* the text computed once before the loop
    client_name,      \* locals of the current iteration
    metrics,
    email_content,
    processed_count,
    outbox,           \* the files of the output directory: name -> body
    log,              \* the log records written so far
    summary,          \* generation_summary.txt: NoneV or Some(record)
    retval            \* the value the run returned: NoneV or Some(record)

vars ==
    <<impl, conv_file, template_file, pdf_dir, convictions_df, email_template,
      openai_client, backend, use_ai, pc, pdf_files, idx, arg_n, ranked,
      convictions_text, client_name, metrics, email_content, processed_count,
      outbox, log, summary, retval>>

environment == <<impl, conv_file, template_file, openai_client, backend, use_ai>>

LogRec(level, ev, arg) == [level |-> level, ev |-> ev, arg |-> arg]

(***************************************************************************)
(* Construction: __init__ and _load_components of the two classes.         *)
(* cf is the convictions file found, tf the template file.  A missing      *)
(* convictions file is created from the sample table and read back; when   *)
(* reading it raises, the except branch ends the loading and the template  *)
(* is not loaded either.                                                   *)
(***************************************************************************)
SampleTableOf(i) == IF i = "enhanced" THEN EnhancedSampleTable ELSE BasicSampleTable

ConvFileAfterLoad(i, cf) ==
    IF i \in {"enhanced", "basic"} /\ cf.state = "missing"
    THEN [state |-> "ok", rows |-> SampleTableOf(i)]
    ELSE cf

LoadedConvictions(i, cf) ==
    IF i = "simple" \/ cf.state = "corrupt" THEN NoneV
    ELSE Some(ConvFileAfterLoad(i, cf).rows)

LoadedTemplate(i, cf, tf) ==
    IF i = "simple" \/ cf.state = "corrupt" THEN NoneV ELSE tf

\* the state in which a run starts: the classes are constructed, simple_demo
\* has loaded nothing yet
Init ==
    /\ impl \in Impls
    /\ \E cf \in ConvFiles :
         /\ conv_file = ConvFileAfterLoad(impl, cf)
         /\ template_file \in TemplateFiles
         /\ convictions_df = LoadedConvictions(impl, cf)
         /\ email_template = LoadedTemplate(impl, cf, template_file)
    /\ openai_client \in (IF impl = "enhanced" THEN BOOLEAN ELSE {FALSE})
    /\ use_ai \in (IF impl = "enhanced" THEN BOOLEAN ELSE {FALSE})
    /\ backend \in (IF openai_client /\ use_ai THEN Backends ELSE {"none"})
    /\ pdf_dir \in {[exists |-> FALSE, files |-> <<>>]}
                   \cup {[exists |-> TRUE, files |-> fs] : fs \in Listings}
    /\ outbox = InitialOutbox
    /\ pc = "start"
    /\ pdf_files = <<>>
    /\ idx = 1
    /\ arg_n = NoneV
    /\ ranked = <<>>
    /\ convictions_text = <<>>
    /\ client_name = <<>>
    /\ metrics = EmptyMetrics
    /\ email_content = NoneV
    /\ processed_count = 0
    /\ log = <<>>
    /\ summary = NoneV
    /\ retval = NoneV

(***************************************************************************)
(* process_all_reports up to the loop (the two classes)                    *)
(***************************************************************************)
\* the n the class passes to get_top_convictions: omitted / 3
BatchArgN(i) == IF i = "enhanced" THEN NoneV ELSE Some(3)

\* early return: the directory is missing or holds no report
StartReturn ==
    /\ pc = "start"
    /\ impl \in {"enhanced", "basic"}
    /\ ~pdf_dir.exists \/ pdf_dir.files = <<>>
    /\ log' = Append(log, IF ~pdf_dir.exists
                          THEN LogRec("error", "pdf_dir_not_found", 0)
                          ELSE LogRec("warning", "no_pdf_files", 0))
    /\ pdf_dir' = IF impl = "basic"
                  THEN [exists |-> TRUE, files |-> SamplePdfs] ELSE pdf_dir
    /\ pc' = "returned"
    /\ UNCHANGED <<environment, convictions_df, email_template, pdf_files, idx,
                   arg_n, ranked, convictions_text, client_name, metrics,
                   email_content, processed_count, outbox, summary, retval>>

StartLoop ==
    /\ pc = "start"
    /\ impl \in {"enhanced", "basic"}
    /\ pdf_dir.exists /\ pdf_dir.files # <<>>
    /\ pdf_files' = pdf_dir.files
    /\ arg_n' = BatchArgN(impl)
    /\ ranked' = IF convictions_df = NoneV THEN <<>>
                 ELSE top_convs(impl, convictions_df[1], BatchArgN(impl))
    /\ convictions_text' = get_top_convictions(impl, convictions_df, BatchArgN(impl))
    /\ log' = log \o ConvictionsLog(convictions_df)
    /\ processed_count' = 0
    /\ pc' = "loop"
    /\ UNCHANGED <<environment, pdf_dir, convictions_df, email_template, idx,
                   client_name, metrics, email_content, outbox, summary,
                   retval>>

(***************************************************************************)
(* generate_emails of simple_demo up to the loop                           *)
(***************************************************************************)
SimpleStart ==
    /\ pc = "start"
    /\ impl = "simple"
    /\ IF template_file = NoneV THEN
            /\ log' = Append(log, LogRec("error", "template_not_found", 0))
            /\ pc' = "returned"
            /\ UNCHANGED <<email_template, convictions_df, ranked,
                           convictions_text, pdf_files>>
       ELSE IF conv_file.state = "missing" THEN
            /\ email_template' = template_file
            /\ log' = Append(log, LogRec("error", "convictions_not_found", 0))
            /\ pc' = "returned"
            /\ UNCHANGED <<convictions_df, ranked, convictions_text, pdf_files>>
       ELSE IF conv_file.state = "corrupt" THEN
            \* float() raises in load_convictions_csv, nothing catches it
            /\ email_template' = template_file
            /\ pc' = "raised"
            /\ UNCHANGED <<convictions_df, ranked, convictions_text, pdf_files,
                           log>>
       ELSE /\ email_template' = template_file
            /\ convictions_df' = Some(load_convictions_csv(conv_file.rows))
            /\ ranked' = Take(load_convictions_csv(conv_file.rows), DefaultTopN)
            /\ convictions_text' = SimpleConvictionsText(conv_file.rows)
            /\ pdf_files' = pdf_dir.files
            /\ pc' = "loop"
            /\ UNCHANGED log
    /\ UNCHANGED <<environment, pdf_dir, idx, arg_n, client_name, metrics,
                   email_content, processed_count, outbox, summary, retval>>

(***************************************************************************)
(* One iteration of the loop.  w is what the output directory does when    *)
(* the email file is opened for writing: "ok" or "open_error" (mkdir or    *)
(* open raises).  open(.., 'w') creates or truncates the file before       *)
(* f.write runs, and f.write(None) raises TypeError.                       *)
(***************************************************************************)
WriteOutcomes == {"ok", "open_error"}

\* the test "if not metrics" left out
NotMetricsNever(m) == FALSE

\* "if not metrics": the record has no key
NotMetrics(m) == DOMAIN m = {}

\* the records generate_email and enhance_with_ai log for source i
GenerateLog(i, tmpl, client, be, name, mets, convictions, ai, k) ==
    IF tmpl = NoneV \/ tmpl[1] = <<>> THEN <<>>
    ELSE IF ~StrFormat(tmpl[1], FormatArgs(name, mets, convictions)).ok
         THEN <<LogRec("error", "render_error", k)>>
    ELSE IF i = "enhanced" /\ ai /\ client
         THEN IF be \in {"text", "notext"}
              THEN <<LogRec("info", "ai_enhanced", k)>>
              ELSE <<LogRec("error", "ai_error", k)>>
    ELSE <<>>

\* parse_pdf_report / parse_report of the class that runs
ParseOf(i, src) == IF i = "enhanced" THEN parse_pdf_report(src) ELSE parse_report(src)

ParseLog(i, src, k) ==
    IF i = "enhanced" /\ ~src.readable
    THEN <<LogRec("error", "parse_error", k)>> ELSE <<>>

\* the convictions text recomputed for each source, with the position of
\* the source as n
LoopConvictionsPerSource ==
    IF impl = "simple" THEN FormatConvictions(Take(convictions_df[1], idx))
    ELSE get_top_convictions(impl, convictions_df, Some(idx))

\* the convictions text an iteration hands to the rendering: the local
\* variable set before the loop
LoopConvictions == convictions_text

ProcessReportBody ==
    /\ pc = "loop"
    /\ impl \in {"enhanced", "basic"}
    /\ idx <= Len(pdf_files)
    /\ \E w \in WriteOutcomes, src \in {pdf_files[idx]} :
       \E name \in {ClientName(src.stem)}, m \in {ParseOf(impl, src)} :
       \E content \in {generate_email(impl, email_template, openai_client,
                                      backend, name, m, LoopConvictions, use_ai)},
          glog \in {GenerateLog(impl, email_template, openai_client, backend,
                                name, m, LoopConvictions, use_ai, idx)} :
            /\ client_name' = name
            /\ metrics' = m
            /\ IF NotMetrics(m) THEN
                    \* "if not metrics: ... continue"
                    /\ log' = log \o ParseLog(impl, src, idx)
                                  \o <<LogRec("warning", "no_metrics", idx)>>
                    /\ UNCHANGED <<email_content, outbox, processed_count>>
               ELSE /\ email_content' = content
                    /\ IF w = "open_error" THEN
                            /\ log' = log \o ParseLog(impl, src, idx) \o glog
                                      \o <<LogRec("error", "process_error", idx)>>
                            /\ UNCHANGED <<outbox, processed_count>>
                       ELSE IF content = NoneV THEN
                            \* the file is truncated, f.write(None) raises
                            /\ outbox' = Put(outbox, name, <<>>)
                            /\ log' = log \o ParseLog(impl, src, idx) \o glog
                                      \o <<LogRec("error", "process_error", idx)>>
                            /\ UNCHANGED processed_count
                       ELSE /\ outbox' = Put(outbox, name, content[1])
                            /\ log' = log \o ParseLog(impl, src, idx) \o glog
                                      \o <<LogRec("info", "generated", idx)>>
                            /\ processed_count' = processed_count + 1
    /\ idx' = idx + 1
    /\ UNCHANGED <<environment, pdf_dir, convictions_df, email_template, pc,
                   pdf_files, arg_n, ranked, convictions_text, summary, retval>>

\* the loop body with the request to the backend retried for as long as it
\* times out: the loop stays at the source
ProcessReportRetrying ==
    IF impl = "enhanced" /\ openai_client /\ use_ai /\ backend = "timeout"
    THEN /\ pc = "loop"
         /\ idx <= Len(pdf_files)
         /\ UNCHANGED vars
    ELSE ProcessReportBody

\* one pass of "for pdf_path in pdf_files" of the two classes: the body runs
\* once for the source and the loop moves on
ProcessReport == ProcessReportBody

\* the loop body of generate_emails: every exception reaches the except
\* branch of the loop
SimpleProcessReport ==
    /\ pc = "loop"
    /\ impl = "simple"
    /\ idx <= Len(pdf_files)
    /\ \E w \in WriteOutcomes, src \in {pdf_files[idx]} :
       \E name \in {ClientName(src.stem)},
          m \in {IF src.readable THEN extract_pdf_metrics(src) ELSE EmptyMetrics},
          failed \in {LogRec("error", "process_error", idx)} :
       \E r \in {StrFormat(email_template[1],
                           FormatArgs(name, m, LoopConvictions))} :
            /\ client_name' = name
            /\ IF ~src.readable THEN
                    \* open() or read() raises in extract_pdf_metrics
                    /\ log' = Append(log, failed)
                    /\ UNCHANGED <<metrics, email_content, outbox, processed_count>>
               ELSE IF NotMetrics(m) THEN
                    /\ metrics' = m
                    /\ log' = Append(log, LogRec("warning", "no_metrics", idx))
                    /\ UNCHANGED <<email_content, outbox, processed_count>>
               ELSE IF ~r.ok THEN
                    \* email_template.format raises
                    /\ metrics' = m
                    /\ log' = Append(log, failed)
                    /\ UNCHANGED <<email_content, outbox, processed_count>>
               ELSE IF w = "open_error" THEN
                    /\ metrics' = m
                    /\ email_content' = Some(r.out)
                    /\ log' = Append(log, failed)
                    /\ UNCHANGED <<outbox, processed_count>>
               ELSE /\ metrics' = m
                    /\ email_content' = Some(r.out)
                    /\ outbox' = Put(outbox, name, r.out)
                    /\ log' = Append(log, LogRec("info", "generated", idx))
                    /\ processed_count' = processed_count + 1
    /\ idx' = idx + 1
    /\ UNCHANGED <<environment, pdf_dir, convictions_df, email_template, pc,
                   pdf_files, arg_n, ranked, convictions_text, summary, retval>>

(***************************************************************************)
(* After the loop: the final log record, the summary file of               *)
(* PerformanceEmailGenerator (_generate_summary_report), the return value  *)
(* of generate_emails                                                      *)
(***************************************************************************)
\* the summary counting every listed report as generated
SummaryRecordOfListing ==
    [generated |-> Len(pdf_files),
     conviction_models |-> IF convictions_df = NoneV THEN 0
                           ELSE Len(convictions_df[1]),
     output_dir |-> OUTPUT_DIR]

SummaryRecord ==
    [generated |-> processed_count,
     conviction_models |-> IF convictions_df = NoneV THEN 0
                           ELSE Len(convictions_df[1]),
     output_dir |-> OUTPUT_DIR]

FinishEnhanced ==
    /\ pc = "loop"
    /\ impl = "enhanced"
    /\ idx > Len(pdf_files)
    /\ log' = Append(log, LogRec("info", "successfully_processed", processed_count))
    /\ pc' = "done"
    /\ UNCHANGED <<environment, pdf_dir, convictions_df, email_template,
                   pdf_files, idx, arg_n, ranked, convictions_text, client_name,
                   metrics, email_content, processed_count, outbox, summary,
                   retval>>

\* ok: whether generation_summary.txt can be written; if not, the exception
\* leaves process_all_reports
FinishBasic ==
    /\ pc = "loop"
    /\ impl = "basic"
    /\ idx > Len(pdf_files)
    /\ \E ok \in BOOLEAN :
         IF ok THEN
              /\ summary' = Some(SummaryRecord)
              /\ log' = log \o <<LogRec("info", "successfully_processed", processed_count),
                                 LogRec("info", "summary_saved", 0)>>
              /\ pc' = "done"
         ELSE /\ log' = Append(log, LogRec("info", "successfully_processed", processed_count))
              /\ pc' = "raised"
              /\ UNCHANGED summary
    /\ UNCHANGED <<environment, pdf_dir, convictions_df, email_template,
                   pdf_files, idx, arg_n, ranked, convictions_text, client_name,
                   metrics, email_content, processed_count, outbox, retval>>

FinishSimple ==
    /\ pc = "loop"
    /\ impl = "simple"
    /\ idx > Len(pdf_files)
    /\ log' = Append(log, LogRec("info", "successfully_processed", processed_count))
    /\ retval' = Some([processed_count |-> processed_count, output_dir |-> OUTPUT_DIR])
    /\ pc' = "done"
    /\ UNCHANGED <<environment, pdf_dir, convictions_df, email_template,
                   pdf_files, idx, arg_n, ranked, convictions_text, client_name,
                   metrics, email_content, processed_count, outbox, summary>>

Next ==
    \/ StartReturn
    \/ StartLoop
    \/ SimpleStart
    \/ ProcessReport
    \/ SimpleProcessReport
    \/ FinishEnhanced
    \/ FinishBasic
    \/ FinishSimple

Spec == Init /\ [][Next]_vars

(***************************************************************************)
(* The ranking on its own: get_top_convictions(n) of the two classes and   *)
(* load_convictions_csv + convictions[:3] of simple_demo, applied to       *)
(* generated tables                                                        *)
(***************************************************************************)
RankModels == {"m1", "m2", "m3"}

RankReturns == {41, 97}

RankRows ==
    { [Model |-> m, YTDpct |-> r, Commentary |-> "c"] :
        m \in RankModels, r \in RankReturns }

\* tables of at most MaxTable rows with pairwise different models, and the
\* sample table of enhanced_generator.py
RankTables ==
    { t \in SeqsUpTo(RankRows, MaxTable) :
        \A i, j \in 1..Len(t) : i # j => t[i].Model # t[j].Model }
    \cup {EnhancedSampleTable}

RankArgs == {NoneV} \cup {Some(k) : k \in 0..MaxN}

\* the variables the ranking and the rendering do not touch
BatchIdle ==
    /\ template_file = NoneV
    /\ pdf_dir = [exists |-> FALSE, files |-> <<>>]
    /\ openai_client = FALSE
    /\ backend = "none"
    /\ use_ai = FALSE
    /\ pdf_files = <<>>
    /\ idx = 1
    /\ processed_count = 0
    /\ outbox = EmptyOutbox
    /\ log = <<>>
    /\ summary = NoneV
    /\ retval = NoneV

InitRank ==
    /\ impl \in Impls
    /\ \E t \in RankTables :
         /\ conv_file = [state |-> "ok", rows |-> t]
         /\ convictions_df = LoadedConvictions(impl, conv_file)
    /\ arg_n \in (IF impl = "simple" THEN {NoneV} ELSE RankArgs)
    /\ pc = "rank"
    /\ ranked = <<>>
    /\ convictions_text = <<>>
    /\ email_template = NoneV
    /\ client_name = <<>>
    /\ metrics = EmptyMetrics
    /\ email_content = NoneV
    /\ BatchIdle

\* the number of calls made on one generator
MaxCalls == 2

\* get_top_convictions keeping the selected rows as the table of the generator
GetTopConvictionsInPlace ==
    /\ pc \in {"rank", "ranked"}
    /\ idx <= MaxCalls
    /\ impl \in {"enhanced", "basic"}
    /\ ranked' = IF convictions_df = NoneV THEN <<>>
                 ELSE top_convs(impl, convictions_df[1], arg_n)
    /\ convictions_df' = IF convictions_df = NoneV THEN NoneV ELSE Some(ranked')
    /\ convictions_text' = get_top_convictions(impl, convictions_df, arg_n)
    /\ log' = log \o ConvictionsLog(convictions_df)
    /\ pc' = "ranked"
    /\ idx' = idx + 1
    /\ UNCHANGED <<environment, pdf_dir, email_template,
                   pdf_files, arg_n, client_name, metrics, email_content,
                   processed_count, outbox, summary, retval>>

\* one call of get_top_convictions(arg_n); idx counts the calls
GetTopConvictions ==
    /\ pc \in {"rank", "ranked"}
    /\ idx <= MaxCalls
    /\ impl \in {"enhanced", "basic"}
    /\ ranked' = IF convictions_df = NoneV THEN <<>>
                 ELSE top_convs(impl, convictions_df[1], arg_n)
    /\ convictions_text' = get_top_convictions(impl, convictions_df, arg_n)
    /\ log' = log \o ConvictionsLog(convictions_df)
    /\ pc' = "ranked"
    /\ idx' = idx + 1
    /\ UNCHANGED <<environment, pdf_dir, convictions_df, email_template,
                   pdf_files, arg_n, client_name, metrics, email_content,
                   processed_count, outbox, summary, retval>>

\* load_convictions_csv(conv_file) and the slice convictions[:3]
SimpleLoadConvictions ==
    /\ pc \in {"rank", "ranked"}
    /\ idx <= MaxCalls
    /\ impl = "simple"
    /\ idx' = idx + 1
    /\ convictions_df' = Some(load_convictions_csv(conv_file.rows))
    /\ ranked' = Take(load_convictions_csv(conv_file.rows), DefaultTopN)
    /\ convictions_text' = SimpleConvictionsText(conv_file.rows)
    /\ pc' = "ranked"
    /\ UNCHANGED <<environment, pdf_dir, email_template, pdf_files, arg_n,
                   client_name, metrics, email_content, processed_count, outbox,
                   log, summary, retval>>

NextRank == GetTopConvictions \/ SimpleLoadConvictions

SpecRank == InitRank /\ [][NextRank]_vars

(***************************************************************************)
(* The rendering on its own: generate_email of the two classes (no AI      *)
(* backend) and the format call of simple_demo, applied to generated       *)
(* templates and metrics records                                           *)
(***************************************************************************)
MaxFields == 2

SupportedFields == {"Name", "YTD", "SinceInception", "Sharpe", "Convictions"}

\* "Beta" is a metric the extractor yields and the format call is not given
FieldNames == SupportedFields \cup {"Beta"}

\* the template "|{f1}|{f2}..." for a sequence of field names
TemplateOf(fields) ==
    Flatten([i \in 1..Len(fields) |-> <<"|", "{", fields[i], "}">>])

RenderTemplates ==
    { TemplateOf(fs) : fs \in SeqsUpTo(FieldNames, MaxFields) \ {<<>>} }

\* the records the extractors can yield for the three rendered keys
RenderMetrics ==
    { [k \in ks |-> FallbackMetrics[k]] : ks \in SUBSET {"YTD", "SinceInception", "Sharpe", "Beta"} }

\* a generator with the template T loaded and a record to render
InitRenderWith(T) ==
    /\ impl \in Impls
    /\ email_template \in {Some(t) : t \in T}
    /\ template_file = email_template
    /\ metrics \in RenderMetrics
    /\ client_name = <<"A", " ", "B">>
    /\ convictions_text = FormatConvictions(SmallTable)
    /\ pc = "render"
    /\ conv_file = [state |-> "ok", rows |-> SmallTable]
    /\ convictions_df = Some(SmallTable)
    /\ arg_n = NoneV
    /\ ranked = SmallTable
    /\ email_content = NoneV
    /\ pdf_dir = [exists |-> FALSE, files |-> <<>>]
    /\ openai_client = FALSE
    /\ backend = "none"
    /\ use_ai \in (IF impl = "enhanced" THEN BOOLEAN ELSE {FALSE})
    /\ pdf_files = <<>>
    /\ idx = 1
    /\ processed_count = 0
    /\ outbox = EmptyOutbox
    /\ log = <<>>
    /\ summary = NoneV
    /\ retval = NoneV

GenerateEmail ==
    /\ pc = "render"
    /\ impl \in {"enhanced", "basic"}
    /\ email_content' = generate_email(impl, email_template, openai_client, backend,
                                       client_name, metrics, convictions_text, use_ai)
    /\ log' = log \o GenerateLog(impl, email_template, openai_client, backend,
                                 client_name, metrics, convictions_text, use_ai, 0)
    /\ pc' = "rendered"
    /\ UNCHANGED <<environment, pdf_dir, convictions_df, email_template,
                   pdf_files, idx, arg_n, ranked, convictions_text, client_name,
                   metrics, processed_count, outbox, summary, retval>>

\* email_template.format(...) of generate_emails: an exception leaves the call
SimpleFormat ==
    /\ pc = "render"
    /\ impl = "simple"
    /\ LET r == StrFormat(email_template[1],
                          FormatArgs(client_name, metrics, convictions_text))
       IN IF r.ok THEN email_content' = Some(r.out) /\ pc' = "rendered"
          ELSE UNCHANGED email_content /\ pc' = "raised"
    /\ UNCHANGED <<environment, pdf_dir, convictions_df, email_template,
                   pdf_files, idx, arg_n, ranked, convictions_text, client_name,
                   metrics, processed_count, outbox, log, summary, retval>>

NextRender == GenerateEmail \/ SimpleFormat

InitRender == InitRenderWith(RenderTemplates)

SpecRender == InitRender /\ [][NextRender]_vars

(***************************************************************************)
(* Rendering on its own output: the rendered text is handed to the format  *)
(* call as the template of a second call, with another context.  idx       *)
(* counts the calls.                                                       *)
(***************************************************************************)
\* templates with the escapes of str.format: "{{" and "}}" render as one brace
EscapedTemplates ==
    { <<"{", "Name", "}", " ", "}", "}">>,
      <<"a", "{", "{", "b", " ", "{", "YTD", "}">> }

RerenderTemplates == RenderTemplates \cup EscapedTemplates

\* the contexts of the second call: no metric, every metric
RerenderMetrics == { m \in RenderMetrics : Cardinality(DOMAIN m) \in {0, 4} }

RerenderNames == { <<"C", " ", "D">> }

InitRerender == InitRenderWith(RerenderTemplates)

RenderAgain ==
    /\ pc = "rendered"
    /\ idx = 1
    /\ email_content # NoneV
    /\ email_template' = email_content
    /\ metrics' \in RerenderMetrics
    /\ client_name' \in RerenderNames
    /\ idx' = 2
    /\ pc' = "render"
    /\ UNCHANGED <<environment, pdf_dir, convictions_df, pdf_files, arg_n,
                   ranked, convictions_text, email_content, processed_count,
                   outbox, log, summary, retval>>

NextRerender == GenerateEmail \/ SimpleFormat \/ RenderAgain

SpecRerender == InitRerender /\ [][NextRerender]_vars

(***************************************************************************)
(* Extraction on its own: one report, its text built from lines, handed    *)
(* to the extractor of each implementation                                 *)
(***************************************************************************)
MaxLines == 2

Ytd85Line == <<"YTD", " ", "Return", ":", " ", "8", ".", "5", "%">>

Ytd31Line == <<"YTD", " ", "Return", ":", " ", "3", ".", "1", "%">>

BenchmarkLine == <<"Benchmark", " ", "ytd", " ", "7", ".", "0", "%">>

YtdLossLine == <<"YTD", " ", "Return", ":", " ", "-", "1", ".", "4", "%">>

InceptionLossLine ==
    <<"Since", " ", "Inception", " ", "Return", ":", " ", "-", "2", ".", "0", "%">>

DrawdownLine == <<"Max", " ", "Drawdown", ":", " ", "-", "5", ".", "2", "%">>

FeesLine == <<"Fees", ":", " ", "2", "%">>

ReportLines ==
    { Ytd85Line, Ytd31Line, BenchmarkLine, YtdLossLine, InceptionLossLine,
      DrawdownLine, FeesLine, BlurbPage }

\* the texts of up to MaxLines lines
ReportTexts ==
    { Join(<<"\n">>, ls) : ls \in SeqsUpTo(ReportLines, MaxLines) \ {<<>>} }

\* a report: unreadable, or readable with the text on its first page or on
\* the page after a cover page
ExtractContents ==
    { [readable |-> FALSE, pages |-> <<>>] }
    \cup { [readable |-> TRUE, pages |-> <<t>>] : t \in ReportTexts }
    \cup { [readable |-> TRUE, pages |-> <<CoverPage, t>>] : t \in ReportTexts }

InitExtract ==
    /\ impl \in Impls
    /\ pdf_files \in { << [stem |-> <<"b">>, readable |-> c.readable,
                           pages |-> c.pages] >> : c \in ExtractContents }
    /\ idx = 1
    /\ pc = "extract"
    /\ metrics = EmptyMetrics
    /\ conv_file = [state |-> "ok", rows |-> SmallTable]
    /\ template_file = Some(GoodTemplate)
    /\ convictions_df = (IF impl = "simple" THEN NoneV ELSE Some(SmallTable))
    /\ email_template = (IF impl = "simple" THEN NoneV ELSE template_file)
    /\ openai_client = FALSE
    /\ backend = "none"
    /\ use_ai = FALSE
    /\ pdf_dir = [exists |-> TRUE, files |-> pdf_files]
    /\ arg_n = NoneV
    /\ ranked = <<>>
    /\ convictions_text = <<>>
    /\ client_name = <<>>
    /\ email_content = NoneV
    /\ processed_count = 0
    /\ outbox = EmptyOutbox
    /\ log = <<>>
    /\ summary = NoneV
    /\ retval = NoneV

\* parse_pdf_report / parse_report of the two classes
ParsePdfReport ==
    /\ pc = "extract"
    /\ impl \in {"enhanced", "basic"}
    /\ metrics' = ParseOf(impl, pdf_files[idx])
    /\ log' = log \o ParseLog(impl, pdf_files[idx], idx)
    /\ pc' = "extracted"
    /\ UNCHANGED <<environment, pdf_dir, convictions_df, email_template,
                   pdf_files, idx, arg_n, ranked, convictions_text, client_name,
                   email_content, processed_count, outbox, summary, retval>>

\* extract_pdf_metrics of simple_demo: open() raises on an unreadable file
\* and nothing in the function catches it
ExtractPdfMetrics ==
    /\ pc = "extract"
    /\ impl = "simple"
    /\ IF pdf_files[idx].readable
       THEN metrics' = extract_pdf_metrics(pdf_files[idx]) /\ pc' = "extracted"
       ELSE UNCHANGED metrics /\ pc' = "raised"
    /\ UNCHANGED <<environment, pdf_dir, convictions_df, email_template,
                   pdf_files, idx, arg_n, ranked, convictions_text, client_name,
                   email_content, processed_count, outbox, log, summary, retval>>

NextExtract == ParsePdfReport \/ ExtractPdfMetrics

SpecExtract == InitExtract /\ [][NextExtract]_vars

\* the batch under the fairness its single thread gives: a run that can take
\* a step takes one (every call made in an iteration returns or raises; the
\* request to the text-generation service ends at the client's timeout)
\* The runs start with a loaded template and a loaded, non-empty table, and
\* with reports that are unreadable, carry the metrics behind a cover page,
\* or carry no metric at all
LiveContents ==
    { [readable |-> FALSE, pages |-> <<>>],
      [readable |-> TRUE, pages |-> <<CoverPage, MetricsPage>>],
      [readable |-> TRUE, pages |-> <<CoverPage, BlurbPage>>] }

LiveInit ==
    /\ Init
    /\ template_file = Some(GoodTemplate)
    /\ conv_file.state = "ok" /\ conv_file.rows # <<>>
    /\ \A i \in 1..Len(pdf_dir.files) :
          [readable |-> pdf_dir.files[i].readable,
           pages |-> pdf_dir.files[i].pages] \in LiveContents

LiveSpec == LiveInit /\ [][Next]_vars /\ WF_vars(Next)

(***************************************************************************)
(* Vocabulary of the properties                                            *)
(***************************************************************************)
N == Len(pdf_files)

Logged(level, ev, arg) == \E k \in 1..Len(log) : log[k] = LogRec(level, ev, arg)

\* the loop has run to its end: the final count is logged
LoopFinished == \E k \in 1..Len(log) : log[k].ev = "successfully_processed"

Generated(i) == Logged("info", "generated", i)

ErrorLogged(i) == \E k \in 1..Len(log) : log[k].level = "error" /\ log[k].arg = i

\* exactly source u of the batch is unreadable and every other source got
\* its email
OnlyUnreadable(u) ==
    /\ u \in 1..N
    /\ ~pdf_files[u].readable
    /\ \A i \in 1..N : i # u => pdf_files[i].readable /\ Generated(i)

\* the step at hand is one iteration of the loop, for the source at idx
IterationStep == pc = "loop" /\ idx <= N /\ idx' = idx + 1

\* the records the step at hand adds to the log
NewLog == SubSeq(log', Len(log) + 1, Len(log'))

(***************************************************************************)
(* C1 as stated: in a finished batch with exactly one unreadable source    *)
(* and all others processed normally, the processed count is N - 1 and the *)
(* unreadable source is logged as skipped.                                 *)
(***************************************************************************)
C1_SkipsUnreadable ==
    \A u \in 1..N :
        (LoopFinished /\ OnlyUnreadable(u))
            => /\ processed_count = N - 1
               /\ Logged("error", "process_error", u)

(***************************************************************************)
(* C1 amended: in a finished batch with exactly one unreadable source and  *)
(* all others processed normally, only generate_emails of simple_demo      *)
(* skips the unreadable source (count N - 1, error logged for it).  The    *)
(* two classes do not skip it: the count is N unless writing that source's *)
(* own email file fails, EnhancedEmailGenerator logs the parse error and   *)
(* the email renders the fallback metrics.                                 *)
(***************************************************************************)
C1_UnreadableNotSkippedByClasses ==
    \A u \in 1..N :
        (LoopFinished /\ OnlyUnreadable(u))
            => IF impl = "simple"
               THEN /\ processed_count = N - 1
                    /\ Logged("error", "process_error", u)
                    /\ ~Generated(u)
               ELSE /\ Logged("error", "process_error", u) \/ processed_count = N
                    /\ impl = "enhanced" => Logged("error", "parse_error", u)
                    /\ processed_count = N => Generated(u)
                    /\ processed_count >= N - 1

C1_Witness ==
    /\ pc = "done"
    /\ impl = "enhanced"
    /\ N = 2
    /\ OnlyUnreadable(1)
    /\ processed_count = 2
    /\ Logged("error", "parse_error", 1)

(***************************************************************************)
(* C2 as stated: an iteration in which the processing of the source fails  *)
(* at any step (an error is logged for the source) creates or alters no    *)
(* file of the output directory and does not count the source.             *)
(***************************************************************************)
FailedIteration ==
    /\ IterationStep
    /\ \E k \in 1..Len(NewLog) : NewLog[k].level = "error" /\ NewLog[k].arg = idx

C2_FailedSourceWritesNothing ==
    [][FailedIteration => outbox' = outbox /\ processed_count' = processed_count]_vars

(***************************************************************************)
(* C3 as stated: when the template is missing or references a placeholder  *)
(* other than the five supported ones, no email file is written and no     *)
(* source is counted as processed.                                         *)
(***************************************************************************)
ReferencesUnsupported(t) ==
    \E i \in 1..Len(t) :
        /\ t[i] = "{"
        /\ i + 2 <= Len(t)
        /\ t[i + 2] = "}"
        /\ t[i + 1] \notin {"Name", "YTD", "SinceInception", "Sharpe", "Convictions"}

TemplateMismatch ==
    \/ template_file = NoneV
    \/ template_file # NoneV /\ ReferencesUnsupported(template_file[1])

C3_MismatchWritesNothing ==
    TemplateMismatch => outbox = InitialOutbox /\ processed_count = 0

(***************************************************************************)
(* C4 as stated: after an iteration of EnhancedEmailGenerator that         *)
(* rendered a base email, if no backend is configured or the request       *)
(* failed in any way (error, timeout, no choices, no text) the email       *)
(* content is the base email, and that is what the file holds when the     *)
(* iteration reports the email as generated.                               *)
(***************************************************************************)
BaseEmail ==
    StrFormat(email_template[1],
              FormatArgs(client_name, metrics, convictions_text)).out

RenderedBase ==
    /\ impl = "enhanced"
    /\ pc \in {"loop", "done"}
    /\ idx > 1
    /\ ~NotMetrics(metrics)
    /\ email_template # NoneV
    /\ StrFormat(email_template[1],
                 FormatArgs(client_name, metrics, convictions_text)).ok

C4_FailedEnhanceKeepsBase ==
    (RenderedBase /\ (~openai_client \/ ~use_ai \/ backend # "text"))
        => /\ email_content = Some(BaseEmail)
           /\ Generated(idx - 1) => outbox[client_name] = BaseEmail

(***************************************************************************)
(* C5 as stated: every run ends with a summary that carries the processed  *)
(* count, the skipped/failed count and the destination, and the two counts *)
(* add up to N (N = 0 and a missing directory included).                   *)
(***************************************************************************)
RunEnded == pc \in {"done", "returned", "raised"}

\* the records a run hands out as its summary: the summary file, the
\* returned value
SummariesProduced == Range(summary) \cup Range(retval)

CarriesCounts(r) ==
    /\ {"processed_count", "skipped_count", "output_dir"} \subseteq DOMAIN r
    /\ r.processed_count = processed_count
    /\ r.processed_count + r.skipped_count = N
    /\ r.output_dir = OUTPUT_DIR

ExtractionReturned == impl # "simple" \/ pdf_files[idx].readable

C7_EmptyMetricsSkipped ==
    [][(IterationStep /\ ExtractionReturned /\ DOMAIN metrics' = {})
        => /\ outbox' = outbox
           /\ processed_count' = processed_count
           /\ NewLog = <<LogRec("warning", "no_metrics", idx)>>
           /\ pc' = "loop"
           /\ pdf_files' = pdf_files]_vars

C7_Witness ==
    /\ pc = "done"
    /\ impl = "enhanced"
    /\ N = 2
    /\ Logged("warning", "no_metrics", 1)
    /\ Generated(2)
    /\ processed_count = 1
    /\ outbox = Put(InitialOutbox, ClientName(pdf_files[2].stem), email_content[1])

(***************************************************************************)
(* C8 as stated: for every table and every n >= 0 the ranking returns the  *)
(* min(n, rows) rows with the largest return, in descending order of       *)
(* return, rows with equal return in table order (n omitted: n = 3); on    *)
(* the sample table with n = 3 it returns 15.2, 12.5, 11.3.                *)
(***************************************************************************)
\* the table the ranking reads and the position of a row in it (the rows of
\* the generated tables are pairwise different)
RankInput == conv_file.rows

PosIn(t, row) == CHOOSE k \in 1..Len(t) : t[k] = row

\* row a goes before row b: larger return, or equal return and earlier
Before(t, a, b) ==
    \/ a.YTDpct > b.YTDpct
    \/ a.YTDpct = b.YTDpct /\ PosIn(t, a) < PosIn(t, b)

IsTopN(out, t, n) ==
    /\ Len(out) = IF n < Len(t) THEN n ELSE Len(t)
    /\ Range(out) \subseteq Range(t)
    /\ \A i, j \in 1..Len(out) : i < j => Before(t, out[i], out[j])
    /\ \A a \in Range(out) : \A b \in Range(t) \ Range(out) : Before(t, a, b)

RequestedN == IF arg_n = NoneV THEN 3 ELSE arg_n[1]

C8_TopNStableDescending ==
    pc = "ranked" =>
        /\ IsTopN(ranked, RankInput, RequestedN)
        /\ (RankInput = EnhancedSampleTable /\ RequestedN = 3)
              => [i \in 1..Len(ranked) |-> ranked[i].YTDpct] = <<152, 125, 113>>

(***************************************************************************)
(* C9 as stated: when the conviction table is loaded with zero rows, the   *)
(* convictions text of the batch is "Conviction data not available".       *)
(***************************************************************************)
C9_EmptyTableGivesPlaceholder ==
    (pc \in {"loop", "done"} /\ convictions_df = Some(<<>>))
        => convictions_text = ConvictionsNotAvailable

(***************************************************************************)
(* C10: for a template "|{f1}|{f2}.." over the five supported fields and   *)
(* any metrics record, rendering succeeds and puts, field by field, the    *)
(* record's value for YTD, SinceInception, Sharpe when the record has the  *)
(* key and "N/A" when it has not (the name and the convictions text for    *)
(* the other two fields).                                                  *)
(***************************************************************************)
\* the field names of the template "|{f1}|{f2}.."
FieldsOf(t) == [i \in 1..(Len(t) \div 4) |-> t[4 * i - 1]]

ExpectedPiece(f) ==
    IF f = "Name" THEN client_name
    ELSE IF f = "Convictions" THEN convictions_text
    ELSE IF f \in DOMAIN metrics THEN metrics[f]
    ELSE <<"N/A">>

ExpectedRender(t) ==
    Flatten([i \in 1..Len(FieldsOf(t)) |-> <<"|">> \o ExpectedPiece(FieldsOf(t)[i])])

OnlySupportedFields(t) == Range(FieldsOf(t)) \subseteq SupportedFields

C10_AbsentMetricRendersNA ==
    (pc # "render" /\ OnlySupportedFields(email_template[1]))
        => /\ pc = "rendered"
           /\ email_content = Some(ExpectedRender(email_template[1]))

C10_Witness ==
    /\ pc = "rendered"
    /\ impl = "enhanced"
    /\ FieldsOf(email_template[1]) = <<"Sharpe", "YTD">>
    /\ DOMAIN metrics = {"YTD", "Beta"}
    /\ email_content = Some(<<"|", "N/A", "|", "8", ".", "5", "%">>)

(***************************************************************************)
(* C11 as stated: a rendered email that contains no placeholder, rendered  *)
(* again as the template with any context, gives the same text and the     *)
(* call does not fail.                                                     *)
(***************************************************************************)
IsBrace(c) == c \in {"{", "}"}

\* a replacement field: "{", "}" with no brace in between
HasPlaceholder(t) ==
    \E i, j \in 1..Len(t) :
        /\ i < j /\ t[i] = "{" /\ t[j] = "}"
        /\ \A k \in (i + 1)..(j - 1) : ~IsBrace(t[k])

\* the second call has ended; its template is the text of the first call
SecondRenderEnded == idx = 2 /\ pc \in {"rendered", "raised"}

RenderedAgainUnchanged == pc = "rendered" /\ email_content = email_template

C11_RerenderIsNoOp ==
    (SecondRenderEnded /\ ~HasPlaceholder(email_template[1]))
        => RenderedAgainUnchanged

(***************************************************************************)
(* C11 amended: a rendered email that contains no brace character,         *)
(* rendered again as the template with any context, gives the same text    *)
(* and the call does not fail.                                             *)
(***************************************************************************)
C11_BraceFreeRerenderIsNoOp ==
    (SecondRenderEnded /\ \A k \in 1..Len(email_template[1]) : ~IsBrace(email_template[1][k]))
        => RenderedAgainUnchanged

C11_Witness ==
    /\ idx = 2
    /\ pc = "rendered"
    /\ template_file = Some(TemplateOf(<<"Name", "Sharpe">>))
    /\ email_template = Some(<<"|", "A", " ", "B", "|", "N/A">>)
    /\ DOMAIN metrics # {}
    /\ email_content = email_template

(***************************************************************************)
(* Vocabulary of the extraction properties                                 *)
(***************************************************************************)
Report == pdf_files[1]

Extracted == pc = "extracted"

\* the lines of the text the extractor of the implementation reads
LinesRead ==
    IF impl = "simple" THEN SplitLines(FileText(Report.pages), <<>>)
    ELSE SplitLines(PagesText(Report.pages, PDF_PAGES_TO_PARSE), <<>>)

\* the line carries the word of the pattern of key
Mentions(line, key) == \E i \in 1..Len(line) : Fold(line[i]) = PatternWord[key]

\* line is read, and it is the only line read that mentions key
OnlyLineFor(key, line) ==
    /\ line \in Range(LinesRead)
    /\ \A l \in Range(LinesRead) : Mentions(l, key) => l = line

SignedLine ==
    [YTD |-> YtdLossLine, SinceInception |-> InceptionLossLine,
     MaxDrawdown |-> DrawdownLine]

\* the number of the line, from its sign on
NumberOf(line) == SubSeq(line, SkipSpaces(line, IndexOf(line, 1, <<":">>) + 1), Len(line))

(***************************************************************************)
(* C12: for every percent metric (YTD, SinceInception, MaxDrawdown) whose  *)
(* number in the report text carries a minus sign, the value extracted by  *)
(* parse_pdf_report keeps the sign and the "%": "Max Drawdown: -5.2%"      *)
(* yields MaxDrawdown = "-5.2%"                                            *)
(***************************************************************************)
C12_NegativePercentKeepsSign ==
    (Extracted /\ impl = "enhanced" /\ Report.readable) =>
        \A key \in PercentKeys :
            OnlyLineFor(key, SignedLine[key]) =>
                /\ key \in DOMAIN metrics
                /\ metrics[key] = NumberOf(SignedLine[key])

(***************************************************************************)
(* C13: for every report text that contains a line "YTD Return: 8.5%",     *)
(* whatever else the text holds before or after that line, extract gives   *)
(* YTD = "8.5%".  As stated, over the text the extractor reads.            *)
(***************************************************************************)
Ytd85 == <<"8", ".", "5", "%">>

YtdIs85 == "YTD" \in DOMAIN metrics /\ metrics["YTD"] = Ytd85

ExtractedFromText == Extracted /\ impl \in {"enhanced", "simple"} /\ Report.readable

C13_YtdLineAlwaysExtracted ==
    (ExtractedFromText /\ Ytd85Line \in Range(LinesRead)) => YtdIs85

\* the positions of the lines read that decide the YTD value: the lines that
\* pair the word YTD with a percent number (the regular expression), that
\* contain the label (the line scan)
YtdLinesAt ==
    { i \in 1..Len(LinesRead) :
        IF impl = "simple" THEN IndexOf(LinesRead[i], 1, YTDLabel) # 0
        ELSE Mentions(LinesRead[i], "YTD") }

\* the first of them for the regular expression, the last for the line scan
DecidesYtd(i) ==
    /\ i \in YtdLinesAt
    /\ \A j \in YtdLinesAt : IF impl = "simple" THEN j <= i ELSE i <= j

\* C13, amended: extract gives YTD = "8.5%" when the line "YTD Return: 8.5%"
\* is, among the lines read, the first YTD match (parse_pdf_report) or the
\* last line with the label "YTD Return:" (extract_pdf_metrics), whatever
\* the other lines are
C13_DecisiveYtdLineExtracted ==
    ExtractedFromText =>
        \A i \in 1..Len(LinesRead) :
            (DecidesYtd(i) /\ LinesRead[i] = Ytd85Line) => YtdIs85

C13_Witness ==
    /\ ExtractedFromText
    /\ impl = "enhanced"
    /\ Report.pages = <<CoverPage, Join(<<"\n">>, <<Ytd85Line, Ytd31Line>>)>>
    /\ DecidesYtd(1)
    /\ YtdIs85

(***************************************************************************)
(* C14: whenever the report source cannot be opened or decoded, extract    *)
(* does not propagate the error and returns exactly the fixed record       *)
(* YTD=8.5%, SinceInception=12.3%, Sharpe=1.42, Beta=0.95,                 *)
(* MaxDrawdown=-5.2%, and the pipeline continues with that record.         *)
(* As stated, for the three implementations.                               *)
(***************************************************************************)
FixedRecord ==
    [YTD |-> Ytd85,
     SinceInception |-> <<"1", "2", ".", "3", "%">>,
     Sharpe |-> <<"1", ".", "4", "2">>,
     Beta |-> <<"0", ".", "9", "5">>,
     MaxDrawdown |-> <<"-", "5", ".", "2", "%">>]

UnreadableIteration == IterationStep /\ ~pdf_files[idx].readable

ContinuedWithFixedRecord ==
    /\ metrics' = FixedRecord
    /\ client_name' = ClientName(pdf_files[idx].stem)
    /\ email_content' = generate_email(impl, email_template, openai_client,
                                       backend, client_name', FixedRecord,
                                       convictions_text, use_ai)
    /\ pc' = "loop"

\* the error left extract and the handler of the loop took it
SkippedWithError ==
    /\ metrics' = metrics
    /\ NewLog = <<LogRec("error", "process_error", idx)>>
    /\ outbox' = outbox
    /\ processed_count' = processed_count
    /\ pc' = "loop"

NoMetricToken ==
    \A line \in Range(SplitLines(FileText(Report.pages), <<>>)) :
        \A key \in MetricKeys : ~Mentions(line, key)

ExtractEnded == pc \in {"extracted", "raised"}

C15_NoTokenGivesEmptyOrFallback ==
    (ExtractEnded /\ impl \in {"enhanced", "simple"} /\ Report.readable
       /\ NoMetricToken)
        => (pc = "extracted" /\ metrics \in {EmptyMetrics, FixedRecord})

C15_Witness ==
    /\ Extracted
    /\ impl = "enhanced"
    /\ Report.pages = <<CoverPage, Join(<<"\n">>, <<BlurbPage, FeesLine>>)>>
    /\ NoMetricToken
    /\ metrics = EmptyMetrics

(***************************************************************************)
(* C16: within one batch the conviction ranking is computed exactly once,  *)
(* before the first source is processed; it is never changed while         *)
(* sources are being processed, and every email rendered in the batch      *)
(* carries the identical convictions text                                  *)
(***************************************************************************)
\* the text of the ranking of the table the batch started with
BatchConvictions ==
    IF impl = "simple" THEN SimpleConvictionsText(conv_file.rows)
    ELSE get_top_convictions(impl, convictions_df, BatchArgN(impl))

\* the email of the source of this iteration, rendered with that text
EmailWithBatchConvictions ==
    IF impl = "simple"
    THEN StrFormat(email_template[1],
                   FormatArgs(client_name', metrics', BatchConvictions)).out
    ELSE generate_email(impl, email_template, openai_client, backend,
                        client_name', metrics', BatchConvictions, use_ai)[1]

EnterLoop == pc = "start" /\ pc' = "loop"

WroteEmail == IterationStep /\ NewLog # <<>> /\ NewLog[Len(NewLog)].ev = "generated"

C16_ConvictionsComputedOnce ==
    [][/\ EnterLoop => (convictions_text' = BatchConvictions /\ idx' = 1
                          /\ outbox' = outbox)
       /\ ~EnterLoop => (convictions_text' = convictions_text
                            /\ ranked' = ranked
                            /\ convictions_df' = convictions_df
                            /\ conv_file' = conv_file)
       /\ WroteEmail => outbox'[client_name'] = EmailWithBatchConvictions]_vars

\* two emails of one batch, both ending with the ranking text
C16_Witness ==
    /\ pc = "done"
    /\ N = 2
    /\ Generated(1) /\ Generated(2)
    /\ email_template = Some(GoodTemplate)
    /\ convictions_text = FormatConvictions(SortDesc(SmallTable))
    /\ DOMAIN outbox = {<<"A", " ", "B">>, <<"B">>}
    /\ \A f \in DOMAIN outbox :
          SubSeq(outbox[f], Len(outbox[f]) - Len(convictions_text) + 1,
                 Len(outbox[f])) = convictions_text

(***************************************************************************)
(* C17: processing a source, whether it succeeds, is skipped or fails,     *)
(* leaves the email files already written for the previously completed     *)
(* sources of the batch unchanged                                          *)
(***************************************************************************)
\* the email file of the i-th source of the batch
ArtifactOf(i) == ClientName(pdf_files[i].stem)

C17_EarlierArtifactsUntouched ==
    [][IterationStep =>
          \A i \in 1..(idx - 1) :
              Generated(i) => /\ ArtifactOf(i) \in DOMAIN outbox'
                              /\ outbox'[ArtifactOf(i)] = outbox[ArtifactOf(i)]]_vars

(***************************************************************************)
(* C20: after a batch the processed count equals the number of distinct    *)
(* email files the batch wrote; every processed source has its own file   *)
(* and no two processed sources share one (the identity is the filename    *)
(* stem with "_" replaced by " " and title-cased)                          *)
(***************************************************************************)
ProcessedSources == { i \in 1..N : Generated(i) }

FilesWritten == { ArtifactOf(i) : i \in ProcessedSources }

C20_CountEqualsDistinctArtifacts ==
    (pc = "done") =>
        /\ processed_count = Cardinality(FilesWritten)
        /\ FilesWritten \subseteq DOMAIN outbox
        /\ \A i, j \in ProcessedSources : i # j => ArtifactOf(i) # ArtifactOf(j)

(***************************************************************************)
(* C18: when a report text holds several matches for the same metric key,  *)
(* the value extracted is that of the earliest match; later matches never  *)
(* replace it (parse_pdf_report, extract_pdf_metrics; checked on YTD)      *)
(***************************************************************************)
\* what the extractor of the implementation gives for a line on its own
YtdOfLine(line) ==
    IF impl = "simple" THEN ScanLine(EmptyMetrics, line)["YTD"]
    ELSE ParseText(line)["YTD"]

EarliestYtdLine == LinesRead[SetMin(YtdLinesAt)]

C18_EarliestMatchWins ==
    (ExtractedFromText /\ Cardinality(YtdLinesAt) >= 2) =>
        /\ "YTD" \in DOMAIN metrics
        /\ metrics["YTD"] = YtdOfLine(EarliestYtdLine)

(***************************************************************************)
(* C19: the ranking is pure and deterministic: it does not modify the      *)
(* source table, and ranking the same table twice yields the same result   *)
(* (get_top_convictions, load_convictions_csv)                             *)
(***************************************************************************)
RankCall == pc \in {"rank", "ranked"} /\ pc' = "ranked" /\ idx' = idx + 1

\* the table the ranking reads: the frame of the classes, the file of
\* simple_demo
SourceTableKept ==
    /\ conv_file' = conv_file
    /\ impl # "simple" => convictions_df' = convictions_df

C19_RankingPure ==
    [][RankCall =>
          /\ SourceTableKept
          /\ pc = "ranked" => /\ ranked' = ranked
                              /\ convictions_text' = convictions_text
                              /\ convictions_df' = convictions_df]_vars

\* two calls on an unsorted table of three rows, two of them selected
C19_Witness ==
    /\ pc = "ranked"
    /\ idx = 3
    /\ impl = "enhanced"
    /\ arg_n = Some(2)
    /\ Len(conv_file.rows) = 3
    /\ conv_file.rows[1].YTDpct < conv_file.rows[2].YTDpct
    /\ convictions_df = Some(conv_file.rows)
    /\ ranked = Take(SortDesc(conv_file.rows), 2)

(***************************************************************************)
(* C21: for every loaded conviction table and every integer n >= 0,        *)
(* get_top_convictions(n) yields exactly min(n, rows of the table) lines;  *)
(* only an omitted n falls back to the default of 3                        *)
(***************************************************************************)
\* the number of lines of a text: "\n".join of k >= 1 lines holds k - 1
\* separators, the empty text holds no line
LineCount(text) ==
    IF text = <<>> THEN 0
    ELSE 1 + Cardinality({i \in 1..Len(text) : text[i] = "\n"})

RankedByClass == pc = "ranked" /\ impl \in {"enhanced", "basic"} /\ convictions_df # NoneV

C21_YieldsMinNRowsLines ==
    RankedByClass =>
        LineCount(convictions_text) =
            IF RequestedN < Len(convictions_df[1]) THEN RequestedN
            ELSE Len(convictions_df[1])

(***************************************************************************)
(* C22: at every point of the batch loop the success counter never         *)
(* decreases, is at most the number of sources visited so far, and is      *)
(* incremented for a source only after the write of that source's email    *)
(* file has completed; it equals the number of sources whose write         *)
(* completed                                                               *)
(***************************************************************************)
\* the iteration ended without a skip and without an error, and the file of
\* its source holds the whole email
WriteCompleted ==
    /\ IterationStep
    /\ \A k \in 1..Len(NewLog) : NewLog[k].ev \notin {"process_error", "no_metrics"}
    /\ email_content' # NoneV
    /\ client_name' = ClientName(pdf_files[idx].stem)
    /\ client_name' \in DOMAIN outbox'
    /\ outbox'[client_name'] = email_content'[1]

InLoop == pc \in {"loop", "done"}

Visited == idx - 1

C22_CounterCountsCompletedWrites ==
    [][/\ processed_count' >= processed_count
       /\ IterationStep =>
             processed_count' = processed_count + (IF WriteCompleted THEN 1 ELSE 0)
       /\ (InLoop /\ ~IterationStep) => processed_count' = processed_count
       /\ InLoop' => /\ processed_count' <= Visited'
                     /\ processed_count' =
                            Cardinality({i \in 1..Visited' : Generated(i)'})]_vars

\* three outcomes in one batch: a source written, then a source whose file
\* could not be opened
C22_Witness ==
    /\ pc = "done"
    /\ N = 2
    /\ Generated(1)
    /\ Logged("error", "process_error", 2)
    /\ processed_count = 1
    /\ outbox[ArtifactOf(1)] # <<>>

====
